---- MODULE Spec2Model ----
(***************************************************************************)
(* Model of the serum_swap program (programs/swap/src/lib.rs): the direct  *)
(* swap, the transitive swap, the orderbook client (sell, buy, order_cpi,  *)
(* settle) and apply_risk_checks.                                          *)
(*                                                                         *)
(* The DEX and the token program are external.  A request handed to the    *)
(* DEX either fails (the CPI returns an error and the instruction ends)    *)
(* or succeeds with an effect on the wallets that the program does not     *)
(* control: new_order_v3 takes funds out of the paying wallet,             *)
(* settle_funds pays free funds into the market's coin wallet and the pc   *)
(* wallet.  The amounts are chosen nondeterministically.                   *)
(*                                                                         *)
(* Integer widths are scaled down: u64 is modelled with U64Bits bits and   *)
(* u128 with twice as many, so that a product of two u64 values always     *)
(* fits in a u128 while a further decimal scaling may overflow it, as in   *)
(* the program.                                                            *)
(***************************************************************************)
EXTENDS Integers, Sequences, FiniteSets, TLC

VARIABLES
    kind,               \* instruction called: "swap" or "swap_transitive"
    side,               \* argument `side` of swap
    amount,             \* argument `amount`
    min_exchange_rate,  \* argument `min_exchange_rate`, as supplied
    mint,               \* mint of each wallet
    coin_lot_size,      \* MarketState.coin_lot_size of each market
    balance,            \* token balance of each wallet
    balance0,           \* the balances when the instruction was entered
    pc,                 \* position in the instruction
    leg,                \* leg of the trade being executed (1 or 2)
    loc,                \* local variables of the instruction
    requests,           \* requests accepted by the DEX, in order
    ops,                \* orderbook client calls made, in order
    event,              \* the DidSwap given to apply_risk_checks, if any
    result              \* outcome of the instruction

vars == << kind, side, amount, min_exchange_rate, mint, coin_lot_size,
           balance, balance0, pc, leg, loc, requests, ops, event, result >>

---------------------------------------------------------------------------
\* Bounds of the model.

U64Bits == 14
MaxBal == 2
MaxAmount == 3
MaxLot == 2
MaxSmall == 3

MaxU64 == 2 ^ U64Bits - 1
MaxU128 == 2 ^ (2 * U64Bits) - 1

\* A decimals value (u8) whose power of ten does not fit in a u128.
BigDecimals == 255

\* limit: the matching cycle budget passed to new_order_v3.
MatchLimit == 65535
\* client_order_id passed to new_order_v3.
ClientOrderId == 0

---------------------------------------------------------------------------
\* Checked arithmetic.  None is the None of a checked operation; unwrap of
\* None panics, which the callers below turn into the result "Panic".

None == -1

\* Mutant of checked_mul: the product saturates at the largest u128.
saturating_mul(a, b) ==
    IF a = None \/ b = None THEN None
    ELSE IF b # 0 /\ a > MaxU128 \div b THEN MaxU128
    ELSE a * b

checked_mul(a, b) ==
    IF a = None \/ b = None THEN None
    ELSE IF b # 0 /\ a > MaxU128 \div b THEN None
    ELSE a * b

checked_add(a, b) ==
    IF a = None \/ b = None THEN None
    ELSE IF a > MaxU128 - b THEN None
    ELSE a + b

checked_sub(a, b) ==
    IF a = None \/ b = None THEN None
    ELSE IF a < b THEN None
    ELSE a - b

checked_div(a, b) ==
    IF a = None \/ b = None THEN None
    ELSE IF b = 0 THEN None
    ELSE a \div b

\* 10u128.checked_pow(e): acc * 10^e, None as soon as a product overflows.
RECURSIVE pow10_from(_, _)
pow10_from(acc, e) ==
    IF acc = None THEN None
    ELSE IF e = 0 THEN acc
    ELSE pow10_from(checked_mul(acc, 10), e - 1)

checked_pow10(e) == pow10_from(1, e)

---------------------------------------------------------------------------
\* apply_risk_checks: the event is emitted, then checked.  The result is
\* "Ok", an ErrorCode, or "Panic" when an unwrap meets None.

\* Mutant of no_spill_credit: the strict flag is not looked at.
no_spill_credit_ignoring_strict(ev) == ev.spill_amount = 0

\* The spill is not credited: there is none, or the rate is strict.
no_spill_credit(ev) ==
    ev.spill_amount = 0 \/ ev.min_exchange_rate.strict

\* Mutant of spill_surplus: the spill is marked against the whole quote
\* amount and not against the part of it that leg 2 consumed.
spill_surplus_over_quote(ev) ==
    IF no_spill_credit(ev) THEN 0
    ELSE checked_div(
             checked_mul(
                 checked_mul(
                     checked_mul(ev.to_amount, ev.spill_amount),
                     checked_pow10(ev.min_exchange_rate.from_decimals)),
                 checked_pow10(ev.min_exchange_rate.quote_decimals)),
             ev.quote_amount)

\* The leftover spill translated into "to" units.
spill_surplus(ev) ==
    IF no_spill_credit(ev) THEN 0
    ELSE checked_div(
             checked_mul(
                 checked_mul(
                     checked_mul(ev.to_amount, ev.spill_amount),
                     checked_pow10(ev.min_exchange_rate.from_decimals)),
                 checked_pow10(ev.min_exchange_rate.quote_decimals)),
             checked_sub(ev.quote_amount, ev.spill_amount))

\* The client's expectation, from the exchange rate.
min_expected_amount(ev) ==
    checked_mul(checked_mul(ev.from_amount, ev.min_exchange_rate.rate),
                checked_pow10(ev.min_exchange_rate.quote_decimals))

\* Mutant of effective_to_amount: where the spill is credited, the surplus
\* stands in for the scaled to_amount and is not added to it.
effective_to_amount_surplus_only(ev) ==
    LET to_amount ==
            checked_mul(
                checked_mul(ev.to_amount,
                            checked_pow10(ev.min_exchange_rate.from_decimals)),
                checked_pow10(ev.min_exchange_rate.quote_decimals))
    IN  IF no_spill_credit(ev) THEN to_amount
        ELSE IF to_amount = None THEN None
        ELSE spill_surplus(ev)

\* to_amount in the common number of decimals, plus the spill surplus.
effective_to_amount(ev) ==
    LET to_amount ==
            checked_mul(
                checked_mul(ev.to_amount,
                            checked_pow10(ev.min_exchange_rate.from_decimals)),
                checked_pow10(ev.min_exchange_rate.quote_decimals))
    IN  checked_add(to_amount, spill_surplus(ev))

\* Mutants of slippage_exceeded: an amount equal to the expectation is
\* rejected; the comparison is reversed.
slippage_exceeded_on_equal(effective, expected) == effective <= expected
slippage_exceeded_reversed(effective, expected) == effective > expected

\* The resulting amount is less than the client's expectation.
slippage_exceeded(effective, expected) == effective < expected

\* The part of apply_risk_checks after the ZeroSwap check.
rate_check(ev) ==
    LET expected == min_expected_amount(ev)
        effective == effective_to_amount(ev)
    IN  IF expected = None \/ effective = None THEN "Panic"
        ELSE IF slippage_exceeded(effective, expected)
        THEN "SlippageExceeded"
        ELSE "Ok"

\* Mutant of apply_risk_checks: ZeroSwap is decided after the arithmetic.
apply_risk_checks_zero_last(ev) ==
    IF rate_check(ev) = "Panic" THEN "Panic"
    ELSE IF ev.to_amount = 0 THEN "ZeroSwap"
    ELSE rate_check(ev)

apply_risk_checks(ev) ==
    IF ev.to_amount = 0 THEN "ZeroSwap" ELSE rate_check(ev)

---------------------------------------------------------------------------
\* Accounts.  The market of swap and the `from` market of swap_transitive
\* are both called "from"; its coin wallet is "from_coin".

Markets == {"from", "to"}
Wallets == {"from_coin", "to_coin", "pc"}

coin_wallet(m) == IF m = "from" THEN "from_coin" ELSE "to_coin"

\* (from_token, to_token) of swap, by side.
from_token == IF side = "Bid" THEN "pc" ELSE "from_coin"
to_token == IF side = "Bid" THEN "from_coin" ELSE "pc"

\* _is_valid_swap: the two mints must differ.
is_valid_swap_(from, to) == mint[from] # mint[to]

is_valid_swap == is_valid_swap_("from_coin", "pc")

\* Mutant of is_valid_swap_transitive: the from mint is compared with the
\* quote mint, as in swap.
is_valid_swap_transitive_vs_pc == is_valid_swap_("from_coin", "pc")

is_valid_swap_transitive == is_valid_swap_("from_coin", "to_coin")

---------------------------------------------------------------------------
\* Orderbook client.

\* Mutant of coin_lots: the size is rounded up to whole lots.
coin_lots_rounded_up(m, size) ==
    checked_div(size + coin_lot_size[m] - 1, coin_lot_size[m])

\* The amount of lots for the base currency of a trade with `size`.
coin_lots(m, size) == checked_div(size, coin_lot_size[m])

\* The order sell hands to order_cpi.
sell(m, base_amount) ==
    [ market |-> m, side |-> "Ask", limit_price |-> 1,
      max_coin_qty |-> coin_lots(m, base_amount),
      max_native_pc_qty |-> MaxU64 ]

\* The order buy hands to order_cpi.
buy(m, quote_amount) ==
    [ market |-> m, side |-> "Bid", limit_price |-> MaxU64,
      max_coin_qty |-> MaxU64,
      max_native_pc_qty |-> quote_amount ]

\* Mutant of order_cpi_panics: the quote quantity is passed on unchecked.
order_cpi_panics_unchecked_pc(o) ==
    \/ o.limit_price = None \/ o.limit_price = 0
    \/ o.max_coin_qty = None \/ o.max_coin_qty = 0

\* order_cpi panics when NonZeroU64::new meets 0 (or coin_lots met None).
order_cpi_panics(o) ==
    \/ o.limit_price = None \/ o.limit_price = 0
    \/ o.max_coin_qty = None \/ o.max_coin_qty = 0
    \/ o.max_native_pc_qty = None \/ o.max_native_pc_qty = 0

\* The new_order_v3 request order_cpi sends.
order_cpi(o) ==
    [ op |-> "new_order_v3", market |-> o.market, side |-> o.side,
      limit_price |-> o.limit_price, max_coin_qty |-> o.max_coin_qty,
      max_native_pc_qty |-> o.max_native_pc_qty,
      self_trade_behavior |-> "DecrementTake",
      order_type |-> "ImmediateOrCancel",
      client_order_id |-> ClientOrderId, limit |-> MatchLimit ]

\* The settle_funds request settle sends.
settle(m) ==
    [ op |-> "settle_funds", market |-> m ]

---------------------------------------------------------------------------
\* Inputs.

Kinds == {"swap", "swap_transitive"}
Sides == {"Bid", "Ask"}
Rates == {0, 1, 2}
Decimals == {0, 1, BigDecimals}

ExchangeRates ==
    [ rate : Rates, from_decimals : Decimals, quote_decimals : {0, BigDecimals},
      strict : BOOLEAN ]

\* The pc wallet holds the quote mint; a coin wallet may hold any mint.
MintMaps ==
    { [ w \in Wallets |->
          CASE w = "pc" -> "USDC" [] w = "from_coin" -> a [] OTHER -> b ] :
      a \in {"USDC", "A"}, b \in {"A", "B"} }

NoLocals ==
    [ min_exchange_rate |-> [ rate |-> 0, from_decimals |-> 0,
                               quote_decimals |-> 0, strict |-> FALSE ],
      from_amount_before |-> 0, to_amount_before |-> 0,
      from_amount_after |-> 0, to_amount_after |-> 0,
      base_before1 |-> 0, quote_before1 |-> 0,
      base_after1 |-> 0, quote_after1 |-> 0,
      from_amount |-> 0, sell_proceeds |-> 0,
      base_before2 |-> 0, quote_before2 |-> 0,
      base_after2 |-> 0, quote_after2 |-> 0,
      to_amount |-> 0, buy_proceeds |-> 0 ]

Init ==
    /\ kind \in Kinds
    /\ side \in Sides
    /\ kind = "swap_transitive" => side = "Ask"
    /\ amount \in 0..MaxAmount
    /\ min_exchange_rate \in ExchangeRates
    /\ mint \in MintMaps
    /\ coin_lot_size \in [Markets -> 1..MaxLot]
    /\ kind = "swap" => coin_lot_size["to"] = 1
    /\ balance \in [Wallets -> 0..MaxBal]
    /\ kind = "swap" => balance["to_coin"] = 0 /\ mint["to_coin"] = "B"
    /\ kind = "swap_transitive" => mint["from_coin"] = "A"
    /\ balance0 = balance
    /\ pc = "start"
    /\ leg = 1
    /\ loc = NoLocals
    /\ requests = << >>
    /\ ops = << >>
    /\ event = << >>
    /\ result = "Running"

---------------------------------------------------------------------------
\* The instruction ends with result r.
Finish(r) ==
    /\ result' = r
    /\ pc' = "done"

\* swap, up to the first CPI: access control, the overwrite of
\* quote_decimals, the balances before the trade.
Swap ==
    /\ pc = "start"
    /\ kind = "swap"
    /\ IF ~is_valid_swap
       THEN /\ Finish("SwapTokensCannotMatch")
            /\ UNCHANGED loc
       ELSE /\ loc' = [ loc EXCEPT
                  !.min_exchange_rate =
                      [ min_exchange_rate EXCEPT !.quote_decimals = 0 ],
                  !.from_amount_before = balance[from_token],
                  !.to_amount_before = balance[to_token] ]
            /\ pc' = "order"
            /\ UNCHANGED result
    /\ UNCHANGED << kind, side, amount, min_exchange_rate, mint,
                    coin_lot_size, balance, balance0, leg, requests, ops,
                    event >>

\* swap_transitive, up to the first CPI: access control and the balances
\* before leg 1.
SwapTransitive ==
    /\ pc = "start"
    /\ kind = "swap_transitive"
    /\ IF ~is_valid_swap_transitive
       THEN /\ Finish("SwapTokensCannotMatch")
            /\ UNCHANGED loc
       ELSE /\ loc' = [ loc EXCEPT
                  !.min_exchange_rate = min_exchange_rate,
                  !.base_before1 = balance["from_coin"],
                  !.quote_before1 = balance["pc"] ]
            /\ pc' = "order"
            /\ UNCHANGED result
    /\ UNCHANGED << kind, side, amount, min_exchange_rate, mint,
                    coin_lot_size, balance, balance0, leg, requests, ops,
                    event >>

---------------------------------------------------------------------------
\* Mutant of market: every trade and settle goes to the from market.
market_always_from == "from"

\* The market traded on at the current position.
market == IF kind = "swap_transitive" /\ leg = 2 THEN "to" ELSE "from"

\* Mutant of leg2_buy: leg 2 spends the caller's amount.
leg2_buy_given_amount == [ op |-> "buy", market |-> "to", arg |-> amount ]

\* Leg 2 of swap_transitive: orderbook_to().buy(sell_proceeds, None).
leg2_buy == [ op |-> "buy", market |-> "to", arg |-> loc.sell_proceeds ]

\* The orderbook client call that executes the trade.
trade_call ==
    IF kind = "swap"
    THEN [ op |-> IF side = "Bid" THEN "buy" ELSE "sell",
           market |-> "from", arg |-> amount ]
    ELSE IF leg = 1
    THEN [ op |-> "sell", market |-> "from", arg |-> amount ]
    ELSE leg2_buy

\* The order a client call builds.
order_of(c) ==
    IF c.op = "sell" THEN sell(c.market, c.arg) ELSE buy(c.market, c.arg)

\* The wallet new_order_v3 takes the funds from (order_payer_token_account).
payer(o) == IF o.side = "Ask" THEN coin_wallet(o.market) ELSE "pc"

\* buy or sell: the order is built (sell loads the market for its lot size,
\* which may fail); order_cpi panics, or the request goes to the DEX, which
\* rejects it or takes funds from the paying wallet.
PlaceOrder ==
    /\ pc = "order"
    /\ LET c == trade_call
           o == order_of(c)
       IN  /\ ops' = Append(ops, c)
           /\ \/ /\ c.op = "sell"
                 /\ Finish("MarketLoadError")
                 /\ UNCHANGED << balance, requests >>
              \/ /\ order_cpi_panics(o)
                 /\ Finish("Panic")
                 /\ UNCHANGED << balance, requests >>
              \/ /\ ~order_cpi_panics(o)
                 /\ requests' = Append(requests, order_cpi(o))
                 /\ Finish("VenueError")
                 /\ UNCHANGED balance
              \/ /\ ~order_cpi_panics(o)
                 /\ requests' = Append(requests, order_cpi(o))
                 /\ \E d \in 0..balance[payer(o)] :
                        balance' = [ balance EXCEPT ![payer(o)] = @ - d ]
                 /\ pc' = "settle"
                 /\ UNCHANGED result
    /\ UNCHANGED << kind, side, amount, min_exchange_rate, mint,
                    coin_lot_size, balance0, leg, loc, event >>

\* settle: the request goes to the DEX, which rejects it or pays free funds
\* into the market's coin wallet and the pc wallet.
Settle ==
    /\ pc = "settle"
    /\ ops' = Append(ops, [ op |-> "settle", market |-> market, arg |-> 0 ])
    /\ requests' = Append(requests, settle(market))
    /\ \/ /\ Finish("VenueError")
          /\ UNCHANGED balance
       \/ /\ \E c \in 0..(MaxBal - balance[coin_wallet(market)]),
                p \in 0..(MaxBal - balance["pc"]) :
                 balance' = [ balance EXCEPT
                                ![coin_wallet(market)] = @ + c,
                                !["pc"] = @ + p ]
          /\ pc' = "measure"
          /\ UNCHANGED result
    /\ UNCHANGED << kind, side, amount, min_exchange_rate, mint,
                    coin_lot_size, balance0, leg, loc, event >>

---------------------------------------------------------------------------
DidSwap(given, rate, from_amt, to_amt, quote_amt, spill_amt, fm, tm, qm) ==
    [ given_amount |-> given, min_exchange_rate |-> rate,
      from_amount |-> from_amt, to_amount |-> to_amt,
      quote_amount |-> quote_amt, spill_amount |-> spill_amt,
      from_mint |-> fm, to_mint |-> tm, quote_mint |-> qm,
      authority |-> "authority" ]

\* Mutant of swap_event: the amount sold is the amount the caller gave.
swap_event_given_amount(from_amount, to_amount) ==
    DidSwap(amount, loc.min_exchange_rate, amount, to_amount, 0, 0,
            mint[from_token], mint[to_token],
            IF side = "Bid" THEN mint[from_token] ELSE mint[to_token])

\* The DidSwap swap builds from the measured deltas.
swap_event(from_amount, to_amount) ==
    DidSwap(amount, loc.min_exchange_rate, from_amount, to_amount, 0, 0,
            mint[from_token], mint[to_token],
            IF side = "Bid" THEN mint[from_token] ELSE mint[to_token])

\* swap after settle: the balances after the trade, the deltas, the event.
MeasureSwap ==
    /\ pc = "measure"
    /\ kind = "swap"
    /\ LET from_amount_after == balance[from_token]
           to_amount_after == balance[to_token]
           from_amount ==
               checked_sub(loc.from_amount_before, from_amount_after)
           to_amount == checked_sub(to_amount_after, loc.to_amount_before)
       IN  /\ loc' = [ loc EXCEPT !.from_amount_after = from_amount_after,
                                  !.to_amount_after = to_amount_after ]
           /\ IF from_amount = None \/ to_amount = None
              THEN /\ Finish("Panic")
                   /\ UNCHANGED event
              ELSE /\ event' = << swap_event(from_amount, to_amount) >>
                   /\ pc' = "risk"
                   /\ UNCHANGED result
    /\ UNCHANGED << kind, side, amount, min_exchange_rate, mint,
                    coin_lot_size, balance, balance0, leg, requests, ops >>

\* swap_transitive after the settle of leg 1: the deltas of leg 1, then the
\* balances before leg 2.
MeasureLeg1 ==
    /\ pc = "measure"
    /\ kind = "swap_transitive"
    /\ leg = 1
    /\ LET base_after == balance["from_coin"]
           quote_after == balance["pc"]
           from_amount == checked_sub(loc.base_before1, base_after)
           sell_proceeds == checked_sub(quote_after, loc.quote_before1)
       IN  IF from_amount = None \/ sell_proceeds = None
           THEN /\ loc' = [ loc EXCEPT !.base_after1 = base_after,
                                       !.quote_after1 = quote_after ]
                /\ Finish("Panic")
                /\ UNCHANGED leg
           ELSE /\ loc' = [ loc EXCEPT !.base_after1 = base_after,
                                       !.quote_after1 = quote_after,
                                       !.from_amount = from_amount,
                                       !.sell_proceeds = sell_proceeds,
                                       !.base_before2 = balance["to_coin"],
                                       !.quote_before2 = balance["pc"] ]
                /\ leg' = 2
                /\ pc' = "order"
                /\ UNCHANGED result
    /\ UNCHANGED << kind, side, amount, min_exchange_rate, mint,
                    coin_lot_size, balance, balance0, requests, ops, event >>

\* Mutant of spill_of: the difference is taken without regard to its sign.
spill_of_abs(sell_proceeds, buy_proceeds) ==
    IF sell_proceeds = None \/ buy_proceeds = None THEN None
    ELSE IF sell_proceeds < buy_proceeds THEN buy_proceeds - sell_proceeds
    ELSE sell_proceeds - buy_proceeds

\* The surplus quote currency not consumed by leg 2.
spill_of(sell_proceeds, buy_proceeds) ==
    checked_sub(sell_proceeds, buy_proceeds)

\* The DidSwap swap_transitive builds.
transitive_event(to_amount, spill_amount) ==
    DidSwap(amount, loc.min_exchange_rate, loc.from_amount, to_amount,
            loc.sell_proceeds, spill_amount,
            mint["from_coin"], mint["to_coin"], mint["pc"])

\* swap_transitive after the settle of leg 2: the deltas of leg 2, the
\* spill, the event.
MeasureLeg2 ==
    /\ pc = "measure"
    /\ kind = "swap_transitive"
    /\ leg = 2
    /\ LET base_after == balance["to_coin"]
           quote_after == balance["pc"]
           to_amount == checked_sub(base_after, loc.base_before2)
           buy_proceeds == checked_sub(loc.quote_before2, quote_after)
           spill_amount == spill_of(loc.sell_proceeds, buy_proceeds)
       IN  IF to_amount = None \/ buy_proceeds = None \/ spill_amount = None
           THEN /\ loc' = [ loc EXCEPT !.base_after2 = base_after,
                                       !.quote_after2 = quote_after ]
                /\ Finish("Panic")
                /\ UNCHANGED event
           ELSE /\ loc' = [ loc EXCEPT !.base_after2 = base_after,
                                       !.quote_after2 = quote_after,
                                       !.to_amount = to_amount,
                                       !.buy_proceeds = buy_proceeds ]
                /\ event' = << transitive_event(to_amount, spill_amount) >>
                /\ pc' = "risk"
                /\ UNCHANGED result
    /\ UNCHANGED << kind, side, amount, min_exchange_rate, mint,
                    coin_lot_size, balance, balance0, leg, requests, ops >>

\* apply_risk_checks on the event built.
RiskCheck ==
    /\ pc = "risk"
    /\ Finish(apply_risk_checks(event[1]))
    /\ UNCHANGED << kind, side, amount, min_exchange_rate, mint,
                    coin_lot_size, balance, balance0, leg, loc, requests,
                    ops, event >>

Next ==
    \/ Swap
    \/ SwapTransitive
    \/ PlaceOrder
    \/ Settle
    \/ MeasureSwap
    \/ MeasureLeg1
    \/ MeasureLeg2
    \/ RiskCheck

Spec == Init /\ [][Next]_vars

---------------------------------------------------------------------------
\* apply_risk_checks on its own: the event is drawn from bounded sets and
\* the function applied to it.

SmallAmounts == 0..MaxSmall

RiskExchangeRates ==
    [ rate : {0, 1, 2, 6, MaxU64}, from_decimals : {0, 1, 4, BigDecimals},
      quote_decimals : {0, 1, BigDecimals}, strict : BOOLEAN ]

RiskToAmounts == SmallAmounts \cup {50, MaxU64}

RiskEvents ==
    { DidSwap(f, r, f, t, q, s, "A", "B", "USDC") :
        f \in SmallAmounts \cup {100, MaxU64},
        r \in RiskExchangeRates,
        t \in RiskToAmounts,
        q \in SmallAmounts \cup {500},
        s \in SmallAmounts \cup {100} }

RiskInit ==
    /\ kind = "swap_transitive"
    /\ side = "Ask"
    /\ event \in { << e >> : e \in RiskEvents }
    /\ amount = event[1].given_amount
    /\ min_exchange_rate = event[1].min_exchange_rate
    /\ mint = [ w \in Wallets |->
                  CASE w = "pc" -> "USDC" [] w = "from_coin" -> "A"
                    [] OTHER -> "B" ]
    /\ coin_lot_size = [ m \in Markets |-> 1 ]
    /\ balance = [ w \in Wallets |-> 0 ]
    /\ balance0 = balance
    /\ pc = "risk"
    /\ leg = 2
    /\ loc = NoLocals
    /\ requests = << >>
    /\ ops = << >>
    /\ result = "Running"

RiskNext == RiskCheck

RiskSpec == RiskInit /\ [][RiskNext]_vars

---------------------------------------------------------------------------
\* Claims.

\* The from mint and the to mint of the instruction called are the same.
same_mints ==
    \/ kind = "swap" /\ mint["from_coin"] = mint["pc"]
    \/ kind = "swap_transitive" /\ mint["from_coin"] = mint["to_coin"]

\* C1: a swap or swap_transitive whose from mint equals its to mint fails
\* with SwapTokensCannotMatch, and fails before any orderbook call is made or
\* any request is sent to the DEX: no balance has changed and no event has
\* been built.
C1_SameMintsRejectedFirst ==
    (pc # "start" /\ same_mints) =>
        /\ pc = "done"
        /\ result = "SwapTokensCannotMatch"
        /\ ops = << >>
        /\ requests = << >>
        /\ event = << >>
        /\ balance = balance0

C1_Witness ==
    /\ kind = "swap_transitive"
    /\ same_mints
    /\ amount > 0
    /\ balance["from_coin"] > 0
    /\ result = "SwapTokensCannotMatch"

\* C2: a direct swap that measured to_amount = 0 fails with ZeroSwap,
\* whatever from_amount and the exchange rate are (also a rate whose scaling
\* would overflow), and no direct swap with to_amount = 0 succeeds.
C2_ZeroSwapFirst ==
    kind = "swap" =>
        /\ (pc = "done" /\ event # << >> /\ event[1].to_amount = 0)
               => result = "ZeroSwap"
        /\ result = "Ok" => (event # << >> /\ event[1].to_amount > 0)

C2_Witness ==
    /\ kind = "swap"
    /\ pc = "done"
    /\ event # << >>
    /\ event[1].to_amount = 0
    /\ event[1].from_amount > 0
    /\ event[1].min_exchange_rate.from_decimals = BigDecimals
    /\ event[1].min_exchange_rate.rate > 0
    /\ result = "ZeroSwap"

\* C3: a direct swap with to_amount > 0 and no arithmetic trap is accepted
\* exactly when to_amount * 10^from_decimals >= from_amount * rate, and is
\* rejected with SlippageExceeded otherwise, whatever quote_decimals and
\* strict the caller supplied: the event carries quote_decimals = 0,
\* quote_amount = 0 and spill_amount = 0.
C3_DirectDecision ==
    (kind = "swap" /\ event # << >>) =>
        LET e == event[1]
        IN  /\ e.min_exchange_rate =
                   [ min_exchange_rate EXCEPT !.quote_decimals = 0 ]
            /\ e.quote_amount = 0
            /\ e.spill_amount = 0
            /\ (pc = "done" /\ e.to_amount > 0 /\ result # "Panic") =>
                   result =
                     IF e.to_amount * 10 ^ min_exchange_rate.from_decimals
                            >= e.from_amount * min_exchange_rate.rate
                     THEN "Ok" ELSE "SlippageExceeded"

C3_Witness ==
    /\ kind = "swap"
    /\ pc = "done"
    /\ result = "Ok"
    /\ min_exchange_rate.quote_decimals = BigDecimals
    /\ ~min_exchange_rate.strict
    /\ min_exchange_rate.from_decimals = 1
    /\ event[1].from_amount * min_exchange_rate.rate > event[1].to_amount

\* C4: with strict = true the result of apply_risk_checks is the result for
\* the same event with spill_amount = 0, whatever spill_amount and
\* quote_amount are; and with spill_amount = 0 the result is the same for
\* strict = false and strict = true.
C4_SpillOnlyWhenNotStrict ==
    pc = "done" =>
        LET e == event[1]
        IN  /\ e.min_exchange_rate.strict =>
                   result = apply_risk_checks([ e EXCEPT !.spill_amount = 0 ])
            /\ e.spill_amount = 0 =>
                   /\ result = apply_risk_checks(
                          [ e EXCEPT !.min_exchange_rate.strict = TRUE ])
                   /\ result = apply_risk_checks(
                          [ e EXCEPT !.min_exchange_rate.strict = FALSE ])

\* A strict rate rejects an event that the same rate, not strict, accepts.
C4_Witness ==
    /\ pc = "done"
    /\ event[1].min_exchange_rate.strict
    /\ event[1].spill_amount > 0
    /\ event[1].quote_amount > event[1].spill_amount
    /\ result = "SlippageExceeded"
    /\ apply_risk_checks(
           [ event[1] EXCEPT !.min_exchange_rate.strict = FALSE ]) = "Ok"

\* The request of the leg-2 buy order, if it has been sent.
leg2_orders ==
    { i \in 1..Len(requests) :
        requests[i].op = "new_order_v3" /\ requests[i].market = "to" }

\* C5: in swap_transitive the leg-2 buy order is sent only after the leg-1
\* sell order and the leg-1 settle, and after the balances after leg 1 have
\* been read; its max quote quantity is sell_proceeds, the increase of the pc
\* wallet measured across leg 1.
C5_Leg2AfterLeg1 ==
    /\ (kind = "swap_transitive" /\ leg = 2 /\ pc = "order") =>
           /\ Len(requests) = 2
           /\ loc.quote_after1 = balance["pc"]
           /\ loc.base_after1 = balance["from_coin"]
           /\ loc.quote_before1 = balance0["pc"]
           /\ loc.sell_proceeds = balance["pc"] - balance0["pc"]
    /\ \A i \in leg2_orders :
           /\ kind = "swap_transitive"
           /\ leg = 2
           /\ i = 3
           /\ requests[1].op = "new_order_v3"
           /\ requests[1].market = "from"
           /\ requests[1].side = "Ask"
           /\ requests[2] = settle("from")
           /\ requests[i].side = "Bid"
           /\ requests[i].max_native_pc_qty = loc.sell_proceeds
           /\ requests[i].max_native_pc_qty
                  = loc.quote_after1 - loc.quote_before1

\* Leg 1 sold less than the amount given and leg 2 was sent with a budget
\* that is not the amount given.
C5_Witness ==
    /\ leg2_orders # {}
    /\ loc.from_amount < amount
    /\ requests[3].max_native_pc_qty # amount
    /\ requests[3].max_native_pc_qty = 2

\* Both legs of a swap_transitive have been executed and settled.
both_legs_settled ==
    /\ kind = "swap_transitive"
    /\ Len(requests) = 4
    /\ pc \in {"measure", "risk", "done"}
    /\ ~(pc = "done" /\ result = "VenueError")

\* C6: the event of a swap_transitive carries quote_amount = sell_proceeds
\* (the quote gained in leg 1) and spill_amount = sell_proceeds -
\* buy_proceeds (buy_proceeds: the quote consumed in leg 2), hence
\* 0 <= spill_amount <= quote_amount; when leg 2 consumed more than
\* sell_proceeds the instruction panics and no event is built.
C6_SpillInvariant ==
    /\ (kind = "swap_transitive" /\ event # << >>) =>
           LET e == event[1]
           IN  /\ e.quote_amount = loc.quote_after1 - loc.quote_before1
               /\ e.quote_amount = loc.sell_proceeds
               /\ e.spill_amount =
                      e.quote_amount - (loc.quote_before2 - loc.quote_after2)
               /\ 0 <= e.spill_amount
               /\ e.spill_amount <= e.quote_amount
    /\ ( /\ both_legs_settled
         /\ pc # "measure"
         /\ loc.quote_before2 - balance["pc"] > loc.sell_proceeds ) =>
           /\ pc = "done"
           /\ result = "Panic"
           /\ event = << >>

C6_Witness ==
    /\ kind = "swap_transitive"
    /\ pc = "done"
    /\ event # << >>
    /\ event[1].spill_amount > 0
    /\ event[1].spill_amount < event[1].quote_amount
    /\ event[1].to_amount > 0

\* The to_amount of the event in the common number of decimals, the spill
\* credit and the client's expectation, as exact integers.
scale_of(e) ==
    10 ^ e.min_exchange_rate.from_decimals
        * 10 ^ e.min_exchange_rate.quote_decimals
exact_to_scaled(e) == e.to_amount * scale_of(e)
exact_credit(e) ==
    (e.to_amount * e.spill_amount * scale_of(e))
        \div (e.quote_amount - e.spill_amount)
exact_expected(e) ==
    e.from_amount * e.min_exchange_rate.rate
        * 10 ^ e.min_exchange_rate.quote_decimals

\* The event is one of a spill credited without a trap.
credited(e) ==
    /\ ~e.min_exchange_rate.strict
    /\ e.spill_amount > 0
    /\ e.quote_amount - e.spill_amount > 0
    /\ e.to_amount > 0

\* C8: an event with strict = false, spill_amount > 0, quote_amount -
\* spill_amount > 0 and to_amount > 0 that meets no arithmetic trap is
\* accepted exactly when
\*   to_amount * 10^fd * 10^qd
\*     + floor(to_amount * spill_amount * 10^fd * 10^qd
\*               / (quote_amount - spill_amount))
\*   >= from_amount * rate * 10^qd,
\* and is rejected with SlippageExceeded otherwise; to_amount = 50,
\* quote_amount = 500, spill_amount = 100 with one from decimal credits 125
\* (12.5 to-units) on top of the 500 (50 to-units) received.
C8_SpillCredit ==
    (pc = "done" /\ credited(event[1]) /\ result # "Panic") =>
        LET e == event[1]
        IN  /\ result =
                 IF exact_to_scaled(e) + exact_credit(e) >= exact_expected(e)
                 THEN "Ok" ELSE "SlippageExceeded"
            /\ ( /\ e.to_amount = 50
                 /\ e.quote_amount = 500
                 /\ e.spill_amount = 100
                 /\ e.min_exchange_rate.from_decimals = 1
                 /\ e.min_exchange_rate.quote_decimals = 0 ) =>
                   (result = "Ok" <=>
                      500 + 125 >= e.from_amount * e.min_exchange_rate.rate)

\* 100 sold, 500 quote received, 400 of it spent for 50: the rate of 6 per
\* ten from units is met only with the credit.
C8_Witness ==
    /\ pc = "done"
    /\ credited(event[1])
    /\ event[1].from_amount = 100
    /\ event[1].to_amount = 50
    /\ event[1].quote_amount = 500
    /\ event[1].spill_amount = 100
    /\ event[1].min_exchange_rate.rate = 6
    /\ event[1].min_exchange_rate.from_decimals = 1
    /\ event[1].min_exchange_rate.quote_decimals = 0
    /\ result = "Ok"
    /\ apply_risk_checks(
           [ event[1] EXCEPT !.min_exchange_rate.strict = TRUE ])
         = "SlippageExceeded"

\* The results of apply_risk_checks for the event with a to_amount at least
\* as large.
results_above ==
    { apply_risk_checks([ event[1] EXCEPT !.to_amount = t ]) :
        t \in { u \in RiskToAmounts : u >= event[1].to_amount } }

\* C9 as claimed: an accepted event is accepted with every larger
\* to_amount.
C9_MonotoneAccept ==
    (pc = "done" /\ result = "Ok") => results_above = {"Ok"}

\* C9, amended: an accepted event is never rejected (neither ZeroSwap nor
\* SlippageExceeded) with a larger to_amount: it is accepted, or the
\* scaling of the larger to_amount overflows and the check panics.
C9_MonotoneNoReject ==
    (pc = "done" /\ result = "Ok") => results_above \subseteq {"Ok", "Panic"}

\* An accepted event that a smaller to_amount would have had rejected and a
\* larger one has accepted.
C9_Witness ==
    /\ pc = "done"
    /\ result = "Ok"
    /\ event[1].to_amount = 2
    /\ apply_risk_checks([ event[1] EXCEPT !.to_amount = 1 ])
         = "SlippageExceeded"
    /\ apply_risk_checks([ event[1] EXCEPT !.to_amount = 50 ]) = "Ok"

\* The i-th orderbook call is a sell that sent the ask order of
\* floor(base_amount / coin_lot_size) lots at limit price 1 with a pc cap of
\* u64::MAX, and did not panic.
sell_sent(i) ==
    /\ Len(requests) >= i
    /\ requests[i] =
           [ op |-> "new_order_v3", market |-> ops[i].market,
             side |-> "Ask", limit_price |-> 1,
             max_coin_qty |-> ops[i].arg \div coin_lot_size[ops[i].market],
             max_native_pc_qty |-> MaxU64,
             self_trade_behavior |-> "DecrementTake",
             order_type |-> "ImmediateOrCancel",
             client_order_id |-> 0, limit |-> 65535 ]
    /\ ~(Len(ops) = i /\ pc = "done" /\ result = "Panic")

\* The i-th orderbook call panicked before any request was sent.
call_panicked(i) ==
    /\ Len(ops) = i
    /\ Len(requests) = i - 1
    /\ pc = "done"
    /\ result = "Panic"

\* The i-th orderbook call is a sell that could not load its market.
load_failed(i) ==
    /\ Len(ops) = i
    /\ pc = "done"
    /\ result = "MarketLoadError"

\* C10 as claimed: every sell of base_amount >= 1 on a market of lot size
\* >= 1 sends the ask order of floor(base_amount / coin_lot_size) lots and
\* does not fail.
C10_SellAlwaysSent ==
    \A i \in 1..Len(ops) :
        (ops[i].op = "sell" /\ ~load_failed(i) /\ ops[i].arg >= 1)
            => sell_sent(i)

\* C10, amended: every sell of base_amount >= coin_lot_size >= 1 sends the
\* ask order of floor(base_amount / coin_lot_size) lots, limit price 1, pc
\* cap u64::MAX, and a remainder below one lot does not make it fail; a sell
\* of base_amount < coin_lot_size panics before any order is sent.
C10_SellSentFromOneLot ==
    \A i \in 1..Len(ops) :
        (ops[i].op = "sell" /\ ~load_failed(i)) =>
            /\ ops[i].arg >= coin_lot_size[ops[i].market] => sell_sent(i)
            /\ ops[i].arg < coin_lot_size[ops[i].market] => call_panicked(i)

\* A sell of three halves of a lot was sent as one lot and the swap went on
\* to succeed.
C10_Witness ==
    /\ Len(ops) >= 1
    /\ ops[1].op = "sell"
    /\ coin_lot_size[ops[1].market] = 2
    /\ ops[1].arg = 3
    /\ sell_sent(1)
    /\ requests[1].max_coin_qty = 1
    /\ result = "Ok"

\* 10^e is at most the largest u128 (no power above 10^9 is).
pow_fits(e) == e <= 9 /\ 10 ^ e <= MaxU128

\* a * b is at most the largest u128.
mul_fits(a, b) == b = 0 \/ a <= MaxU128 \div b

\* The spill credit is computed for the event.
spill_branch(e) == ~e.min_exchange_rate.strict /\ e.spill_amount # 0

\* Every power, product, difference, quotient and sum that
\* apply_risk_checks evaluates for the event (to_amount > 0) is defined and
\* at most the largest u128, as exact integers.
arithmetic_fits(e) ==
    LET fd == e.min_exchange_rate.from_decimals
        qd == e.min_exchange_rate.quote_decimals
    IN  /\ pow_fits(qd)
        /\ mul_fits(e.from_amount * e.min_exchange_rate.rate, 10 ^ qd)
        /\ pow_fits(fd)
        /\ mul_fits(e.to_amount, 10 ^ fd)
        /\ mul_fits(e.to_amount * 10 ^ fd, 10 ^ qd)
        /\ spill_branch(e) =>
               /\ mul_fits(e.to_amount * e.spill_amount, 10 ^ fd)
               /\ mul_fits(e.to_amount * e.spill_amount * 10 ^ fd, 10 ^ qd)
               /\ e.quote_amount >= e.spill_amount
               /\ e.quote_amount - e.spill_amount # 0
               /\ exact_credit(e) <= MaxU128 - exact_to_scaled(e)

\* The effective to_amount of the event as an exact integer.
exact_effective(e) ==
    exact_to_scaled(e) + IF spill_branch(e) THEN exact_credit(e) ELSE 0

\* C11: apply_risk_checks never decides on a wrapped or truncated value.
\* For an event with to_amount > 0 it returns Ok only if
\* effective_to_amount >= min_expected_amount holds for the exact integers,
\* SlippageExceeded only if it fails for them, and it panics exactly when a
\* power, product or sum it evaluates exceeds the largest u128, or
\* quote_amount - spill_amount underflows or is 0 where the spill is
\* credited.  (With to_amount = 0 nothing is evaluated: ZeroSwap.)
C11_ExactDecision ==
    pc = "done" =>
        LET e == event[1]
        IN  /\ e.to_amount = 0 => result = "ZeroSwap"
            /\ e.to_amount > 0 =>
                   /\ result \in {"Ok", "SlippageExceeded", "Panic"}
                   /\ result = "Panic" <=> ~arithmetic_fits(e)
                   /\ result = "Ok" =>
                          exact_effective(e) >= exact_expected(e)
                   /\ result = "SlippageExceeded" =>
                          exact_effective(e) < exact_expected(e)

\* Both powers of ten fit and the divisor is positive, and yet a product or
\* the sum overflows: the check panics.
C11_Witness ==
    /\ pc = "done"
    /\ result = "Panic"
    /\ event[1].from_amount > 0
    /\ event[1].min_exchange_rate.rate > 0
    /\ pow_fits(event[1].min_exchange_rate.from_decimals)
    /\ pow_fits(event[1].min_exchange_rate.quote_decimals)
    /\ event[1].quote_amount > event[1].spill_amount

\* The result of apply_risk_checks for the event with the rate not strict.
result_not_strict ==
    apply_risk_checks([ event[1] EXCEPT !.min_exchange_rate.strict = FALSE ])

\* The event was checked with a strict rate, has spill_amount <=
\* quote_amount, and was accepted.
strict_accepted ==
    /\ pc = "done"
    /\ event[1].min_exchange_rate.strict
    /\ event[1].spill_amount <= event[1].quote_amount
    /\ result = "Ok"

\* C12 as claimed: an event accepted with strict = true is accepted with
\* strict = false.
C12_NotStrictAccepts ==
    strict_accepted => result_not_strict = "Ok"

\* C12, amended: an event accepted with strict = true is never rejected
\* with strict = false; it is accepted, or the spill credit traps (its
\* product or the sum overflows, or spill_amount = quote_amount makes the
\* divisor 0) and the check panics.
C12_NotStrictNeverRejects ==
    strict_accepted =>
        /\ result_not_strict \in {"Ok", "Panic"}
        /\ result_not_strict = "Panic" =>
               /\ event[1].spill_amount > 0
               /\ ~arithmetic_fits(
                      [ event[1] EXCEPT !.min_exchange_rate.strict = FALSE ])

\* Accepted strictly with a spill, and accepted with the spill credited.
C12_Witness ==
    /\ strict_accepted
    /\ event[1].spill_amount > 0
    /\ event[1].spill_amount < event[1].quote_amount
    /\ event[1].from_amount > 0
    /\ event[1].min_exchange_rate.rate > 0
    /\ result_not_strict = "Ok"

\* The wallet sold from and the wallet bought into.
from_wallet == IF kind = "swap" THEN from_token ELSE "from_coin"
to_wallet == IF kind = "swap" THEN to_token ELSE "to_coin"

\* The last step was a measurement of balances or the risk check: every
\* orderbook call made so far sent its request and the DEX accepted it.
measured ==
    /\ pc \in {"risk", "done"}
    /\ Len(requests) >= 2
    /\ Len(ops) = Len(requests)
    /\ result # "VenueError"

\* The event carries the measured deltas, a delta of the wrong sign panics,
\* and the decision is the same for any amount given.
measured_deltas ==
    /\ event # << >> =>
           /\ event[1].from_amount = balance0[from_wallet] - balance[from_wallet]
           /\ event[1].to_amount = balance[to_wallet] - balance0[to_wallet]
           /\ event[1].given_amount = amount
    /\ ( /\ measured
         /\ \/ balance[from_wallet] > balance0[from_wallet]
            \/ balance[to_wallet] < balance0[to_wallet] ) =>
           /\ pc = "done"
           /\ result = "Panic"
           /\ event = << >>
    /\ (pc = "done" /\ event # << >>) =>
           \A g \in {0, 1, amount + 1, MaxU64} :
               apply_risk_checks([ event[1] EXCEPT !.given_amount = g ])
                   = result

request_shape(r) ==
    IF r.op = "settle_funds" THEN << r.op, r.market, "-" >>
    ELSE << r.op, r.market, r.side >>

\* The requests a complete instruction sends, in order.
full_sequence ==
    IF kind = "swap"
    THEN << << "new_order_v3", "from", side >>,
            << "settle_funds", "from", "-" >> >>
    ELSE << << "new_order_v3", "from", "Ask" >>,
            << "settle_funds", "from", "-" >>,
            << "new_order_v3", "to", "Bid" >>,
            << "settle_funds", "to", "-" >> >>

\* The requests sent so far are the first ones of the full sequence; the
\* balances after a trade are read only when the order of the leg and then
\* its settle have been sent; an event is built only after all of them.
requests_in_order ==
    /\ Len(requests) <= Len(full_sequence)
    /\ \A i \in 1..Len(requests) :
           request_shape(requests[i]) = full_sequence[i]
    /\ pc = "measure" =>
           /\ Len(requests) = 2 * leg
           /\ requests[Len(requests)] = settle(market)
           /\ requests[Len(requests) - 1].op = "new_order_v3"
           /\ requests[Len(requests) - 1].market = market
    /\ (pc = "settle" \/ result = "VenueError") => Len(requests) >= 1
    /\ event # << >> => Len(requests) = Len(full_sequence)

\* C14: every order is followed by a settle on the same market before any
\* balance after the trade is read, and no request is sent twice: swap sends
\* at most one new_order_v3 and then one settle_funds, swap_transitive at
\* most sell and settle on the from market, then buy and settle on the to
\* market; once a request has failed, or the instruction has ended in any
\* other way, no further request is sent.
C14_RequestOrder ==
    /\ []requests_in_order
    /\ [][(result # "Running" \/ pc = "done") => requests' = requests]_vars

C14_Witness ==
    /\ kind = "swap_transitive"
    /\ Len(requests) = 4
    /\ requests_in_order
    /\ result = "Ok"

\* The orderbook call asks for a quantity of 0: a buy of no quote, or a sell
\* of less than one lot.
zero_quantity(c) ==
    \/ c.op = "buy" /\ c.arg = 0
    \/ c.op = "sell" /\ c.arg \div coin_lot_size[c.market] = 0

\* Every order sent has non-zero quantities, and every call of quantity 0
\* panicked before sending.
no_zero_order ==
    /\ \A i \in 1..Len(requests) :
           requests[i].op = "new_order_v3" =>
               /\ requests[i].limit_price >= 1
               /\ requests[i].max_coin_qty >= 1
               /\ requests[i].max_native_pc_qty >= 1
    /\ \A i \in 1..Len(ops) :
           (ops[i].op # "settle" /\ zero_quantity(ops[i]) /\ ~load_failed(i))
               => call_panicked(i)

\* C15: at every step, every order sent to the DEX has limit price, max
\* coin quantity and max pc quantity >= 1; an orderbook call whose quantity would be 0 (a bid
\* with amount = 0, a sell of less than one lot, the leg-2 buy when
\* sell_proceeds = 0) panics before its order is sent, so the instruction
\* ends in a panic and not in ZeroSwap.
C15_NoZeroOrder == []no_zero_order

\* Leg 1 sold for no proceeds at all and the leg-2 buy panicked.
C15_Witness ==
    /\ kind = "swap_transitive"
    /\ Len(ops) = 3
    /\ ops[3].op = "buy"
    /\ ops[3].arg = 0
    /\ loc.from_amount > 0
    /\ call_panicked(3)

====
